---- MODULE Spec2Model ----
(* CGM live-data synchronisation of Diyabet-Takipcileri:                     *)
(*   - the Express backend (src/index.tsx): session table, axiosWithRetry,   *)
(*     the connect / read / disconnect routes;                               *)
(*   - the React provider (src/unnamed/part_000): log merge, connection      *)
(*     status, connectLibre / disconnectLibre / syncLibreData, the sync      *)
(*     interval effect.                                                      *)
(* The client API module ./api/libre (connectToLibre, fetchLatestReadings,   *)
(* disconnectFromLibre) is not part of the sources; its three functions are  *)
(* modelled from the interface description of the specification (section 6). *)
(* Time is counted in units of 15 minutes.                                   *)
EXTENDS Integers, Sequences, FiniteSets, Bags, TLC

\* ------------------------------------------------------------------ bounds
MaxNow == 2
MaxManual == 1
MaxTicks == 1
MaxConnects == 1
MaxDisconnects == 1
MaxSwitches == 1
MaxHalfDays == 32

\* ------------------------------------------------------- program constants
DefaultRetries == 3
SensorLifeDays == 14
DayUnits == 96
StaleUnits == 1

ProfileIds == {"p1", "p2"}
NoSensor == [present |-> FALSE, daysLeft |-> 0, state |-> ""]
NoSid == 0

\* ---------------------------------------------------------------- helpers
Max(a, b) == IF a >= b THEN a ELSE b

\* Math.ceil(n / d) for d > 0 and any integer n.
CeilDiv(n, d) == IF n >= 0 THEN (n + d - 1) \div d ELSE -((-n) \div d)

\* A timestamp string: the instant it denotes and the notation it is written in.
\* new Date(x).toISOString() always yields the "iso" notation.
ISO(t) == [t |-> t, fmt |-> "iso"]
\* new Date(ts).getTime()
GetTime(ts) == ts.t

\* ------------------------------------------------------- axiosWithRetry
\* A vendor outcome of one attempt: "timeout" (no answer within the axios
\* timeout), or an HTTP answer; "200bad" is a 200 whose body carries no token.
Outcomes == {"timeout", "200", "200bad", "401", "403", "500"}
HttpStatus(o) ==
    CASE o = "timeout" -> 0
      [] o = "200" -> 200
      [] o = "200bad" -> 200
      [] o = "401" -> 401
      [] o = "403" -> 403
      [] o = "500" -> 500

\* axios rejects on a timeout and, unless validateStatus accepts every status,
\* on any status outside 2xx.
AxiosThrows(config, o) ==
    o = "timeout" \/ (~config.validateAll /\ HttpStatus(o) # 200)

\* The backoff the comment in axiosWithRetry announces: 1 s, 2 s, 4 s.
RetryDelay_Doubling(retries) ==
    CASE retries = 3 -> 1000
      [] retries = 2 -> 2000
      [] OTHER -> 4000

\* The wait, in ms, before the attempt that follows a failed one.
RetryDelay(retries) == (4 - retries) * 1000

\* axiosWithRetry(config, retries) on the attempt outcomes outs: the response
\* or the error it ends with, the number of attempts made and the waits
\* between them.
RECURSIVE AxiosWithRetry(_, _, _)
AxiosWithRetry(config, outs, retries) ==
    LET o == Head(outs)
        isTimeout == o = "timeout"
        isServerErr == HttpStatus(o) >= 500
    IN  IF ~AxiosThrows(config, o)
        THEN [kind |-> "resp", out |-> o, attempts |-> 1, delays |-> <<>>]
        ELSE IF retries > 0 /\ (isTimeout \/ isServerErr)
             THEN LET r == AxiosWithRetry(config, Tail(outs), retries - 1)
                  IN  [r EXCEPT !.attempts = @ + 1,
                                !.delays = <<RetryDelay(retries)>> \o @]
             ELSE [kind |-> "throw", out |-> o, attempts |-> 1, delays |-> <<>>]

\* The axios config of the three vendor calls: the login leaves validateStatus
\* at its default, the two reads accept every status.
VendorCalls == {"login", "connections", "graph"}
VendorConfig(call) == [validateAll |-> (call # "login")]

\* ------------------------------------------------ POST /api/libre/connect
\* A login route whose catch answers every failure alike.
LoginRoute_Generic(hasCreds, outs) ==
    IF ~hasCreds
    THEN [status |-> 400, success |-> FALSE, attempts |-> 0, delays |-> <<>>]
    ELSE LET r == AxiosWithRetry(VendorConfig("login"), outs, DefaultRetries)
             st == IF r.kind = "resp" /\ r.out = "200" THEN 200 ELSE 500
         IN  [status |-> st, success |-> (st = 200),
              attempts |-> r.attempts, delays |-> r.delays]

\* The route on the attempt outcomes outs of the vendor login: 400 without
\* credentials, 403 on an answer without token, and in the catch 504 on a
\* timeout, else the vendor's status.
LoginRoute(hasCreds, outs) ==
    IF ~hasCreds
    THEN [status |-> 400, success |-> FALSE, attempts |-> 0, delays |-> <<>>]
    ELSE LET r == AxiosWithRetry(VendorConfig("login"), outs, DefaultRetries)
             st == IF r.kind = "resp"
                   THEN (IF r.out = "200" THEN 200 ELSE 403)
                   ELSE IF r.out = "timeout" THEN 504
                   ELSE HttpStatus(r.out)
         IN  [status |-> st, success |-> (st = 200),
              attempts |-> r.attempts, delays |-> r.delays]

\* --------------------------------------------------- GET /api/libre/read
SensorState(pt) ==
    CASE pt = 1 -> "Isiniyor"
      [] pt = 2 -> "Aktif"
      [] pt = 3 -> "Suresi Doldu"
      [] pt = 4 -> "Bitti"
      [] pt = 5 -> "Hata"
      [] OTHER -> "Durum"

\* daysLeft of a sensor activated at t0, evaluated at now; t0 = 0 is the
\* falsy activation timestamp, for which daysLeft stays 0.
DaysLeft(t0, now) ==
    IF t0 = 0 THEN 0
    ELSE Max(0, CeilDiv((t0 + SensorLifeDays * DayUnits) - now, DayUnits))

SensorInfo(sensor, now) ==
    [present |-> TRUE, daysLeft |-> DaysLeft(sensor.a, now), state |-> SensorState(sensor.pt)]

\* A sort of the graph items that puts the oldest first.
MaxOf_Oldest(S) == CHOOSE x \in S : \A y \in S : x <= y

\* The most recent graph timestamp (items.sort(...)[0]).
MaxOf(S) == CHOOSE x \in S : \A y \in S : y <= x

\* payload: the connection the route selects from the vendor's answer:
\*   hasConn, gm (0: no embedded measurement, else its instant),
\*   sensor ([a, pt], pt = 0: no sensor), graph (set of instants).
\* Answer: status, the reading (or none), whether the session is deleted, and
\* how each vendor call the route made ended ("none": not called, "error":
\* axiosWithRetry threw, else the response).
NoReading == [hasValue |-> FALSE, timestamp |-> ISO(0), sensor |-> NoSensor]
ReadRoute(known, consOuts, payload, graphOuts, now) ==
    LET cons == AxiosWithRetry(VendorConfig("connections"), consOuts, DefaultRetries)
        sensorInfo == IF payload.sensor.pt # 0 THEN SensorInfo(payload.sensor, now) ELSE NoSensor
        isStale == payload.gm = 0 \/ now - payload.gm > StaleUnits
        isWarmingUp == sensorInfo.state = "Isiniyor"
        hist == AxiosWithRetry(VendorConfig("graph"), graphOuts, DefaultRetries)
        items == IF hist.kind = "resp" /\ hist.out = "200" THEN payload.graph ELSE {}
        readingT == IF isStale /\ ~isWarmingUp /\ items # {} THEN MaxOf(items) ELSE payload.gm
        hasFirst == cons.kind = "resp" /\ cons.out = "200" /\ payload.hasConn
        consEnd == IF ~known THEN "none"
                   ELSE IF cons.kind = "throw" THEN "error" ELSE cons.out
        graphEnd == IF known /\ hasFirst /\ isStale /\ ~isWarmingUp
                    THEN (IF hist.kind = "throw" THEN "error" ELSE hist.out)
                    ELSE "none"
        answer(st, del, rd) == [status |-> st, reading |-> rd, delete |-> del,
                                cons |-> consEnd, graph |-> graphEnd]
        none(st, del) == answer(st, del, NoReading)
    IN  IF ~known THEN none(401, FALSE)
        ELSE IF cons.kind = "throw" THEN none(204, FALSE)
        ELSE IF cons.out = "401" THEN none(401, TRUE)
        ELSE IF cons.out # "200" \/ ~payload.hasConn THEN none(204, FALSE)
        ELSE IF isStale /\ ~isWarmingUp /\ hist.kind = "throw" THEN none(204, FALSE)
        ELSE IF readingT # 0
             THEN answer(200, FALSE,
                         [hasValue |-> TRUE, timestamp |-> ISO(readingT), sensor |-> sensorInfo])
        ELSE IF sensorInfo.present
             THEN answer(200, FALSE,
                         [hasValue |-> FALSE, timestamp |-> ISO(now), sensor |-> sensorInfo])
        ELSE none(204, FALSE)

\* ------------------------------------------------------------ client state
\* Array.prototype.sort with (a, b) => getTime(b) - getTime(a): a stable sort,
\* newest first.
RECURSIVE InsertDesc(_, _)
InsertDesc(sorted, e) ==
    IF sorted = <<>> THEN <<e>>
    ELSE IF GetTime(Head(sorted).timestamp) >= GetTime(e.timestamp)
         THEN <<Head(sorted)>> \o InsertDesc(Tail(sorted), e)
         ELSE <<e>> \o sorted

\* A sort that leaves the array as it is.
SortDesc_Unsorted(entries) == entries

RECURSIVE SortDesc(_)
SortDesc(entries) ==
    IF entries = <<>> THEN <<>>
    ELSE InsertDesc(SortDesc(SubSeq(entries, 1, Len(entries) - 1)), entries[Len(entries)])

initialSettings == [status |-> "disconnected", email |-> "", region |-> "EU",
                    lastSync |-> 0, sensor |-> NoSensor]

\* The libreLinkUp part of updateSettings: {...p.settings.libreLinkUp, ...patch}.
\* Every patch the provider builds carries status, email, region and lastSync;
\* the sensor key is optional and an absent key keeps the old sensor.
MergeLibre(old, patch) ==
    [patch EXCEPT !.sensor = IF patch.sensor.present THEN patch.sensor ELSE old.sensor]

VARIABLES
    now,            \* wall clock, in units of 15 minutes
    vendor,         \* what the vendor cloud currently reports
    sessions,       \* server: the in-memory session table
    nextSid,        \* server: the next fresh session id (uuidv4)
    profiles,       \* client: libreLinkUp settings of every profile
    activeProfileId,
    logEntries,     \* client: the log, all profiles
    settingsRef,    \* client: settingsRef.current (settings of the last render)
    localSid,       \* client: localStorage 'libreSessionId'
    isMock,         \* client: localStorage 'libreIsMock' === 'true'
    ticks,          \* client: syncLibreData calls awaiting fetchLatestReadings
    discs,          \* client: disconnectLibre calls awaiting apiDisconnect
    timers,         \* client: the 30 s intervals of the sync effect that are armed
    conn,           \* client: the connectLibre call in progress
    login,          \* the connectToLibre request of that call
    mockSync,       \* client: the setTimeout(syncLibreData, 1000) of the fallback
    loginSucceeded, \* history: the login route has created a session
    op,             \* history: the handler that ran last
    calls,          \* history: interval firings and user requests since Init
    fnIn, fnOut,    \* a request to the server and the answer it gave
    disk,           \* server: the session table stored in sessions.json
    writable,       \* server: writing sessions.json succeeds
    loading,        \* server: loadSessions has not finished yet
    persisted       \* history: sessions in the table and in the file when the
                    \* server last restarted, not invalidated since

vars == <<now, vendor, sessions, nextSid, profiles, activeProfileId, logEntries,
          settingsRef, localSid, isMock, ticks, timers, discs, conn, login, mockSync,
          loginSucceeded, op, calls, fnIn, fnOut, disk, writable, loading, persisted>>

\* The session table: a Map from session ids to the account they belong to.
EmptyTable == [s \in {} |-> ""]
SessionsSet(table, sid, account) ==
    [s \in DOMAIN table \cup {sid} |-> IF s = sid THEN account ELSE table[s]]
SessionsDelete(table, sid) == [s \in DOMAIN table \ {sid} |-> table[s]]

\* saveSessions: the content of sessions.json after the table has been
\* written; a failing write is ignored and leaves the file as it was.
SaveSessions(table, file, ok) == IF ok THEN table ELSE file

\* A saveSessions whose write error reaches its caller.
SaveThrows_Propagates(ok) == ~ok

\* saveSessions rejects: never, its catch ignores every error.
SaveThrows(ok) == FALSE

\* loadSessions: every record of the file is set in the table.
LoadSessions(table, file) ==
    [s \in DOMAIN table \cup DOMAIN file |-> IF s \in DOMAIN file THEN file[s] ELSE table[s]]

NoCall == [called |-> FALSE]
Emails == {"e"}
Formats == {"iso", "local"}
NoRes == [status |-> 0, reading |-> NoReading]
IdleConn == [pc |-> "idle", email |-> "", closure |-> initialSettings, timer |-> "off"]
NoLogin == [st |-> "none", email |-> "", success |-> FALSE, sid |-> NoSid, status |-> 0]
NoCalls == [tick |-> 0, connect |-> 0, disconnect |-> 0, switch |-> 0, restart |-> 0]
Op(name, sid) == [name |-> name, sid |-> sid, t |-> 0]

\* Sequences of attempt outcomes the vendor may produce for one axiosWithRetry call.
Const(o) == [i \in 1..(DefaultRetries + 1) |-> o]
Then(o1, o2) == [i \in 1..(DefaultRetries + 1) |-> IF i = 1 THEN o1 ELSE o2]
VendorRuns == {Const(o) : o \in Outcomes} \cup {Then("timeout", "200"), Then("500", "200")}

\* The state after construction, but for the simulated-mode flag and the
\* variables of the routes' pure computations.
Boot ==
    /\ now = 1
    /\ vendor = [latest |-> 1, sensorOn |-> FALSE]
    /\ sessions = EmptyTable
    /\ disk = EmptyTable
    /\ writable = TRUE
    /\ loading = FALSE
    /\ persisted = {}
    /\ nextSid = 1
    /\ profiles = [p \in ProfileIds |-> initialSettings]
    /\ activeProfileId = "p1"
    /\ logEntries = <<>>
    /\ settingsRef = initialSettings
    /\ localSid = NoSid
    /\ ticks = EmptyBag
    /\ timers = 1
    /\ discs = [user |-> 0, expiry |-> 0]
    /\ conn = IdleConn
    /\ login = NoLogin
    /\ mockSync = FALSE
    /\ loginSucceeded = FALSE
    /\ op = Op("init", NoSid)
    /\ calls = NoCalls

Init ==
    /\ Boot
    /\ isMock \in BOOLEAN
    /\ fnIn = NoCall
    /\ fnOut = NoCall


\* updateSettings({libreLinkUp: patch}): the profile activeProfileIdRef names.
updateSettings(profs, patch) ==
    [profs EXCEPT ![activeProfileId] = MergeLibre(@, patch)]

\* A syncLibreData that fetches whether or not a session marker is stored.
StartSync_Always(pending, cur, sid, first) ==
    pending (+) SetToBag({[cur |-> [cur EXCEPT !.lastSync = 0], sid |-> sid,
                           st |-> "sent", res |-> NoRes, first |-> first]})

\* The body of syncLibreData up to its await: the bag of pending calls after a
\* call made while settingsRef.current is cur and the session marker is sid.
\* The copy keeps every field but lastSync: the call overwrites lastSync in
\* the object it builds from the copy and reads it nowhere.
StartSync(pending, cur, sid, first) ==
    IF sid = NoSid THEN pending
    ELSE pending (+) SetToBag({[cur |-> [cur EXCEPT !.lastSync = 0], sid |-> sid,
                                st |-> "sent", res |-> NoRes, first |-> first]})

\* ------------------------------------------------------------ environment
\* Time passes; the vendor may publish a new measurement and the sensor may
\* appear or disappear from its payload.
VendorUpdate ==
    /\ now < MaxNow
    /\ now' = now + 1
    /\ \E l \in {vendor.latest, now + 1}, s \in BOOLEAN :
          vendor' = [latest |-> l, sensorOn |-> s]
    /\ op' = Op("VendorUpdate", NoSid)
    /\ UNCHANGED <<timers, sessions, nextSid, profiles, activeProfileId, logEntries, settingsRef,
                           localSid, isMock, ticks, discs, conn, login, mockSync,
                           loginSucceeded, calls, fnIn, fnOut, disk, writable, loading, persisted>>

\* What the vendor's connections and graph endpoints carry at this moment.
VendorPayload ==
    [hasConn |-> TRUE,
     gm |-> vendor.latest,
     sensor |-> IF vendor.sensorOn THEN [a |-> 1, pt |-> 2] ELSE [a |-> 0, pt |-> 0],
     graph |-> IF vendor.latest = 0 THEN {} ELSE {vendor.latest}]

\* ----------------------------------------------------------------- server
\* The answers the login route can compute, over the vendor's behaviours.
LoginAnswers(hasCreds) ==
    {[success |-> x.success, status |-> x.status] :
        x \in {LoginRoute(hasCreds, outs) : outs \in VendorRuns}}

\* POST /api/libre/connect after the vendor login has ended as r: the session
\* is stored under a fresh id and the table is saved.
ConnectRoute(account, r) ==
    /\ sessions' = IF r.success THEN SessionsSet(sessions, nextSid, account) ELSE sessions
    /\ nextSid' = IF r.success THEN nextSid + 1 ELSE nextSid
    /\ disk' = IF r.success THEN SaveSessions(sessions', disk, writable) ELSE disk

\* The answer of the route: an error thrown by saveSessions would end in the
\* route's catch (500).
ConnectAnswer(r) ==
    IF r.success /\ SaveThrows(writable)
    THEN [success |-> FALSE, status |-> 500, sid |-> NoSid]
    ELSE [success |-> r.success, status |-> r.status,
          sid |-> IF r.success THEN nextSid ELSE NoSid]

\* POST /api/libre/connect, for the request of connectToLibre.
ServerConnect ==
    /\ login.st = "sent"
    /\ \E r \in LoginAnswers(TRUE) :
          LET a == ConnectAnswer(r) IN
          /\ ConnectRoute(login.email, r)
          /\ loginSucceeded' = (loginSucceeded \/ a.success)
          /\ login' = [login EXCEPT !.st = "answered", !.success = a.success,
                                    !.sid = a.sid, !.status = a.status]
    /\ op' = Op("ServerConnect", NoSid)
    /\ UNCHANGED <<timers, now, vendor, profiles, activeProfileId, logEntries, settingsRef,
                           localSid, isMock, ticks, discs, conn, mockSync, calls, fnIn, fnOut,
                           writable, loading, persisted>>

\* The answers the read route can give now, over the vendor's behaviours.
ReadAnswers(known) ==
    {ReadRoute(known, consOuts, VendorPayload, graphOuts, now) :
        consOuts \in VendorRuns, graphOuts \in VendorRuns}

\* GET /api/libre/read
ServerRead ==
    \E t \in BagToSet(ticks) :
      /\ t.st = "sent"
      /\ \E r \in ReadAnswers(t.sid \in DOMAIN sessions) :
            LET res == [status |-> r.status, reading |-> r.reading]
            IN  /\ sessions' = IF r.delete THEN SessionsDelete(sessions, t.sid) ELSE sessions
                /\ ticks' = (ticks (-) SetToBag({t}))
                              (+) SetToBag({[t EXCEPT !.st = "answered", !.res = res]})
      /\ op' = Op("ServerRead", t.sid)
      /\ UNCHANGED <<timers, now, vendor, nextSid, profiles, activeProfileId, logEntries,
                             settingsRef, localSid, isMock, discs, conn, login, mockSync,
                             loginSucceeded, calls, fnIn, fnOut, disk, writable, loading, persisted>>

\* A route that empties the table.
DisconnectRoute_ClearsAll(table, sid) ==
    IF sid # NoSid THEN EmptyTable ELSE table

\* POST /api/libre/disconnect: the session table after the route has run.
DisconnectRoute(table, sid) ==
    IF sid # NoSid THEN SessionsDelete(table, sid) ELSE table

\* ----------------------------------------------- ./api/libre (from the spec)
\* fetchLatestReadings: the outcome the client sees for an HTTP status of the
\* read route: a list with the reading, an empty list, SessionExpired (an
\* error whose message names the session, "Oturum"), or another error.
FetchOutcome(status) ==
    CASE status = 200 -> "readings"
      [] status = 204 -> "empty"
      [] status = 401 -> "expired"
      [] OTHER -> "error"

\* disconnectFromLibre: posts the stored session id to the disconnect route
\* (which the server runs on arrival) and clears the local marker; discs
\* counts the calls whose answer is still under way, by caller (the user,
\* or the catch of syncLibreData).
ApiDisconnect(caller) ==
    /\ sessions' = DisconnectRoute(sessions, localSid)
    /\ disk' = SaveSessions(sessions', disk, writable)
    /\ localSid' = NoSid
    /\ discs' = [discs EXCEPT ![caller] = @ + 1]

\* ------------------------------------------------------------------ client
\* An updater that appends every reading that carries a value.
MergeReading_NoDedup(prevEntries, reading, pid) ==
    IF reading.hasValue
    THEN SortDesc(prevEntries \o
                  <<[timestamp |-> reading.timestamp, profileId |-> pid, cgm |-> TRUE]>>)
    ELSE prevEntries

\* The setLogEntries updater of syncLibreData for one fetched reading.
MergeReading(prevEntries, reading, pid) ==
    LET existingTimestamps == {prevEntries[i].timestamp : i \in 1..Len(prevEntries)}
        newEntries == IF reading.timestamp \notin existingTimestamps /\ reading.hasValue
                      THEN <<[timestamp |-> reading.timestamp, profileId |-> pid, cgm |-> TRUE]>>
                      ELSE <<>>
    IN  IF Len(newEntries) > 0 THEN SortDesc(prevEntries \o newEntries) ELSE prevEntries

\* The libreLinkUp object syncLibreData hands to updateSettings:
\* {...currentSettings.libreLinkUp, lastSync, sensor?}.
SyncPatch(cur, reading, time) ==
    [cur EXCEPT !.lastSync = time,
                !.sensor = IF reading.sensor.present THEN reading.sensor ELSE cur.sensor]

\* A tick that goes on with whatever list the fetch returned.
SyncReturnsEarly_Never(outcome) == FALSE

\* if (!readings || readings.length === 0) return;
SyncReturnsEarly(outcome) == outcome = "empty"

\* A catch that only logs the error.
SyncCatchDisconnects_Never(outcome) == FALSE

\* The catch of syncLibreData: only an error naming the session disconnects.
SyncCatchDisconnects(outcome) == outcome = "expired"

\* A catch that takes the simulated-mode branch whatever the flag says.
ConnectFailPatch_AlwaysMock(closure, email, mock) ==
    [closure EXCEPT !.status = "connected", !.email = email]

\* A catch that writes the settings back as connectLibre found them.
ConnectFailPatch_Keep(closure, email, mock) == closure

\* The libreLinkUp object the catch of connectLibre hands to updateSettings.
ConnectFailPatch(closure, email, mock) ==
    IF mock THEN [closure EXCEPT !.status = "connected", !.email = email]
    ELSE [closure EXCEPT !.status = "error"]

\* The libreLinkUp object connectLibre hands to updateSettings after a login.
ConnectSuccessPatch(closure, email) ==
    [closure EXCEPT !.status = "connected", !.email = email]

\* The libreLinkUp object disconnectLibre hands to updateSettings.
DisconnectPatch == [initialSettings EXCEPT !.status = "disconnected"]

\* An interval effect whose cleanup clears nothing.
IntervalEffect_NoCleanup(armed) == armed + 1

\* The interval effect re-runs: the cleanup of the previous run clears the
\* interval that run armed, then setInterval arms a new one.
IntervalEffect(armed) == (armed - 1) + 1

\* React commits a handler's state updates before the next event is handled:
\* settingsRef.current follows the settings of the active profile, and a
\* changed status re-runs the interval effect, which calls syncLibreData at
\* once. pending is the bag of pending syncLibreData calls the handler leaves.
Commit(pending) ==
    LET settings == profiles'[activeProfileId'] IN
    /\ settingsRef' = settings
    /\ ticks' = IF settingsRef.status # settings.status
                THEN StartSync(pending, settings, localSid', FALSE)
                ELSE pending
    /\ timers' = IF settingsRef.status # settings.status
                 THEN IntervalEffect(timers)
                 ELSE timers

\* The 30 s interval fires: syncLibreData().
IntervalTick ==
    /\ timers > 0
    /\ calls.tick < MaxTicks
    /\ calls' = [calls EXCEPT !.tick = @ + 1]
    /\ ticks' = StartSync(ticks, settingsRef, localSid, FALSE)
    /\ op' = Op(IF localSid = NoSid THEN "TickNoSession" ELSE "IntervalTick", localSid)
    /\ UNCHANGED <<timers, now, vendor, sessions, nextSid, profiles, activeProfileId, logEntries,
                           settingsRef, localSid, isMock, discs, conn, login, mockSync,
                           loginSucceeded, fnIn, fnOut, disk, writable, loading, persisted>>

\* fetchLatestReadings settles and syncLibreData runs to its end.
SyncDone ==
    \E t \in BagToSet(ticks) :
      LET outcome == FetchOutcome(t.res.status) IN
      /\ t.st = "answered"
      /\ IF outcome \in {"readings", "empty"} /\ ~SyncReturnsEarly(outcome)
         THEN /\ logEntries' = MergeReading(logEntries, t.res.reading, activeProfileId)
              /\ profiles' = updateSettings(profiles, SyncPatch(t.cur, t.res.reading, now))
              /\ UNCHANGED <<discs, localSid, sessions, disk>>
         ELSE IF outcome \notin {"readings", "empty"} /\ SyncCatchDisconnects(outcome)
         THEN /\ ApiDisconnect("expiry")
              /\ UNCHANGED <<logEntries, profiles>>
         ELSE UNCHANGED <<logEntries, profiles, discs, localSid, sessions, disk>>
      /\ conn' = IF t.first /\ conn.pc = "firstSync" THEN IdleConn ELSE conn
      /\ op' = [name |-> "Sync_" \o outcome, sid |-> t.sid,
                 t |-> IF outcome = "readings" /\ t.res.reading.hasValue
                       THEN GetTime(t.res.reading.timestamp) ELSE 0]
      /\ UNCHANGED <<now, vendor, nextSid, activeProfileId,
                     isMock, login, mockSync, loginSucceeded, calls, fnIn, fnOut,
                     writable, loading, persisted>>
      /\ Commit(ticks (-) SetToBag({t}))

\* disconnectLibre(), called by the user.
DisconnectLibre ==
    /\ calls.disconnect < MaxDisconnects
    /\ calls' = [calls EXCEPT !.disconnect = @ + 1]
    /\ ApiDisconnect("user")
    /\ op' = Op("DisconnectLibre", localSid)
    /\ UNCHANGED <<timers, now, vendor, nextSid, profiles, activeProfileId, logEntries,
                           settingsRef, isMock, ticks, conn, login, mockSync,
                           loginSucceeded, fnIn, fnOut, writable, loading, persisted>>

\* apiDisconnect settles (or fails) and disconnectLibre resets the settings.
DisconnectDone ==
    \E caller \in {"user", "expiry"} :
      /\ discs[caller] > 0
      /\ discs' = [discs EXCEPT ![caller] = @ - 1]
      /\ profiles' = updateSettings(profiles, DisconnectPatch)
      /\ op' = Op("DisconnectDone_" \o caller, NoSid)
      /\ UNCHANGED <<now, vendor, sessions, nextSid, activeProfileId, logEntries,
                     localSid, isMock, conn, login, mockSync,
                     loginSucceeded, calls, fnIn, fnOut, disk, writable, loading, persisted>>
      /\ Commit(ticks)

\* connectLibre(email, password), up to its await of the race between
\* connectToLibre and the 75 s timer.
ConnectLibre ==
    \E email \in Emails :
      /\ conn.pc = "idle"
      /\ login.st = "none"
      /\ calls.connect < MaxConnects
      /\ calls' = [calls EXCEPT !.connect = @ + 1]
      /\ profiles' = updateSettings(profiles, [settingsRef EXCEPT !.status = "connecting"])
      /\ conn' = [pc |-> "racing", email |-> email, closure |-> settingsRef, timer |-> "armed"]
      /\ login' = [NoLogin EXCEPT !.st = "sent", !.email = email]
      /\ op' = Op("ConnectLibre", NoSid)
      /\ UNCHANGED <<now, vendor, sessions, nextSid, activeProfileId, logEntries,
                     localSid, isMock, discs, mockSync,
                     loginSucceeded, fnIn, fnOut, disk, writable, loading, persisted>>
      /\ Commit(ticks)

\* The catch of connectLibre.
ConnectFail ==
    /\ profiles' = updateSettings(profiles, ConnectFailPatch(conn.closure, conn.email, isMock))
    /\ mockSync' = (mockSync \/ isMock)
    /\ conn' = IdleConn

\* connectToLibre settles. A success stores the session id as the local
\* marker. When the race is still open connectLibre goes on: after a success
\* it sets the status and calls syncLibreData, otherwise it runs its catch.
LoginDone ==
    /\ login.st = "answered"
    /\ login' = NoLogin
    /\ localSid' = IF login.success THEN login.sid ELSE localSid
    /\ op' = Op(IF conn.pc # "racing" THEN "LoginLate"
                ELSE IF login.success THEN "LoginSuccess" ELSE "LoginFailure", login.sid)
    /\ UNCHANGED <<now, vendor, sessions, nextSid, activeProfileId, logEntries,
                   isMock, discs, loginSucceeded, calls, fnIn, fnOut, disk, writable, loading, persisted>>
    /\ IF conn.pc = "racing"
       THEN IF login.success
            THEN /\ profiles' = updateSettings(profiles, ConnectSuccessPatch(conn.closure, conn.email))
                 /\ conn' = [IdleConn EXCEPT !.pc = "firstSync", !.timer = conn.timer]
                 /\ UNCHANGED mockSync
                 /\ Commit(StartSync(ticks, settingsRef, localSid', TRUE))
            ELSE /\ ConnectFail
                 /\ Commit(ticks)
       ELSE /\ UNCHANGED <<profiles, conn, mockSync>>
            /\ Commit(ticks)

\* The 75 s timer of connectLibre fires. It rejects the race when the race is
\* still open; once connectToLibre has won the race it has no effect.
ConnectTimeout ==
    /\ conn.timer = "armed"
    /\ IF conn.pc = "racing"
       THEN ConnectFail
       ELSE /\ conn' = [conn EXCEPT !.timer = "fired"]
            /\ UNCHANGED <<profiles, mockSync>>
    /\ op' = Op(IF conn.pc = "racing" THEN "ConnectTimeout" ELSE "TimerLate", NoSid)
    /\ UNCHANGED <<now, vendor, sessions, nextSid, activeProfileId, logEntries,
                   localSid, isMock, discs, login,
                   loginSucceeded, calls, fnIn, fnOut, disk, writable, loading, persisted>>
    /\ Commit(ticks)

\* The setTimeout(() => syncLibreData(), 1000) of the simulated-mode fallback.
MockSyncTimer ==
    /\ mockSync
    /\ mockSync' = FALSE
    /\ ticks' = StartSync(ticks, settingsRef, localSid, FALSE)
    /\ op' = Op("MockSyncTimer", localSid)
    /\ UNCHANGED <<timers, now, vendor, sessions, nextSid, profiles, activeProfileId, logEntries,
                           settingsRef, localSid, isMock, discs, conn, login,
                           loginSucceeded, calls, fnIn, fnOut, disk, writable, loading, persisted>>

\* ------------------------------------------------------- manual log actions
ManualEntries == {i \in 1..Len(logEntries) : ~logEntries[i].cgm}

\* addEntry(entryData): the timestamp is the one given or, if none, now.
addEntry ==
    \E ts \in {[t |-> t, fmt |-> f] : t \in 1..MaxNow, f \in Formats} :
      /\ Cardinality(ManualEntries) < MaxManual
      /\ logEntries' = SortDesc(logEntries \o
                         <<[timestamp |-> ts, profileId |-> activeProfileId, cgm |-> FALSE]>>)
      /\ op' = Op("addEntry", NoSid)
      /\ UNCHANGED <<timers, now, vendor, sessions, nextSid, profiles, activeProfileId,
                             settingsRef, localSid, isMock, ticks, discs, conn, login, mockSync,
                             loginSucceeded, calls, fnIn, fnOut, disk, writable, loading, persisted>>

\* deleteEntry(id): ids are unique, so the filter drops one position.
deleteEntry ==
    \E i \in 1..Len(logEntries) :
      /\ logEntries' = SubSeq(logEntries, 1, i - 1) \o SubSeq(logEntries, i + 1, Len(logEntries))
      /\ op' = Op("deleteEntry", NoSid)
      /\ UNCHANGED <<timers, now, vendor, sessions, nextSid, profiles, activeProfileId,
                             settingsRef, localSid, isMock, ticks, discs, conn, login, mockSync,
                             loginSucceeded, calls, fnIn, fnOut, disk, writable, loading, persisted>>

switchProfile ==
    \E p \in ProfileIds \ {activeProfileId} :
      /\ calls.switch < MaxSwitches
      /\ calls' = [calls EXCEPT !.switch = @ + 1]
      /\ activeProfileId' = p
      /\ op' = Op("switchProfile", NoSid)
      /\ UNCHANGED <<now, vendor, sessions, nextSid, profiles, logEntries,
                     localSid, isMock, discs, conn, login, mockSync,
                     loginSucceeded, fnIn, fnOut, disk, writable, loading, persisted>>
      /\ Commit(ticks)

\* The connection lifecycle: connect, poll, disconnect.
Next ==
    \/ ServerConnect
    \/ ServerRead
    \/ IntervalTick
    \/ SyncDone
    \/ DisconnectLibre
    \/ DisconnectDone
    \/ ConnectLibre
    \/ LoginDone
    \/ ConnectTimeout
    \/ MockSyncTimer

Spec == Init /\ [][Next]_vars

\* The connection status the user sees.
Status == profiles[activeProfileId].status

\* C3, its part on operations: every change of a connection status is made by
\* an explicit connect request (to connecting), a successful login (to
\* connected), a connect failure (to error, or to connected when the
\* simulated-mode flag is set) or the completion of a disconnect, explicit or
\* after a session expiry (to disconnected); no other operation, in
\* particular no sync tick, changes a status.
C3_Closure ==
    [][\A p \in ProfileIds :
          profiles'[p].status # profiles[p].status =>
             LET new == profiles'[p].status
                 name == op'.name
             IN  \/ name = "ConnectLibre" /\ new = "connecting"
                 \/ name = "LoginSuccess" /\ new = "connected"
                 \/ /\ name \in {"LoginFailure", "ConnectTimeout"}
                    /\ new = IF isMock THEN "connected" ELSE "error"
                 \/ /\ name \in {"DisconnectDone_user", "DisconnectDone_expiry"}
                    /\ new = "disconnected"]_vars

C7_ExpiryDisconnects ==
    /\ op.name = "Sync_expired" =>
          (op.sid \notin DOMAIN sessions /\ localSid = NoSid /\ discs.expiry > 0)
    /\ op.name = "DisconnectDone_expiry" => Status = "disconnected"

\* The disconnect that followed a vendor 401 has completed: the user never
\* asked to disconnect, the session is gone and the status is disconnected.
C7_Witness ==
    /\ op.name = "DisconnectDone_expiry"
    /\ calls.disconnect = 0
    /\ loginSucceeded /\ sessions = EmptyTable
    /\ Status = "disconnected"

\* C10, as the specification states it: when the 75 s timer fires before the
\* login and the first sync have both finished, the attempt ends as a connect
\* failure (status error, or connected when the simulated-mode flag is set).
C10_TimeoutWrapsFirstSync ==
    op.name \in {"ConnectTimeout", "TimerLate"} =>
        (conn.pc = "idle" /\ Status = IF isMock THEN "connected" ELSE "error")

\* C10, amended: the 75 s timer bounds the login alone. When it fires before
\* the login is answered the attempt ends as a connect failure; when it fires
\* during the first sync it ends nothing, the first sync stays pending.
C10_TimeoutWrapsLogin ==
    /\ op.name = "ConnectTimeout" =>
          (conn.pc = "idle" /\ Status = IF isMock THEN "connected" ELSE "error")
    /\ op.name = "TimerLate" => (conn.pc = "firstSync" /\ conn.timer = "fired")

\* The timer has fired with the login request still unanswered.
C10_Witness ==
    /\ op.name = "ConnectTimeout"
    /\ login.st # "none"
    /\ ~isMock /\ Status = "error"

\* C20: a sync tick whose read ends with no reading and no expired session
\* (the read route answers 204 on a vendor timeout, a vendor 5xx, a payload
\* without a connection or without data) changes neither the settings of any
\* profile (status, lastSync, sensor) nor the log, and keeps the session: the
\* table, the local marker and the disconnects under way are as before.
C20_FailedTickSilent ==
    [][op'.name \in {"Sync_empty", "Sync_error"} =>
          /\ profiles' = profiles
          /\ logEntries' = logEntries
          /\ sessions' = sessions
          /\ localSid' = localSid
          /\ discs' = discs]_vars

\* A tick of a connected client has ended on a 204 of the read route, its
\* session still in the table.
C20_Witness ==
    /\ op.name = "Sync_empty"
    /\ Status = "connected"
    /\ op.sid = localSid /\ localSid \in DOMAIN sessions

\* C11, its second half: once a connect attempt has left connecting, the
\* status of the active profile returns to connecting only by a new explicit
\* connect request.
C11_NoReturnToConnecting ==
    [][(/\ profiles[activeProfileId].status # "connecting"
        /\ profiles'[activeProfileId'].status = "connecting")
          => op'.name = "ConnectLibre"]_vars

\* C21: a sync tick, of the interval or of the fallback timer, that finds no
\* session marker starts no fetch and changes neither the log nor the
\* settings of any profile (status, lastSync, sensor), nor the session table.
C21_NoMarkerNoOp ==
    [][(\/ op'.name = "TickNoSession"
        \/ op'.name = "MockSyncTimer" /\ op'.sid = NoSid)
          => /\ ticks' = ticks
             /\ logEntries' = logEntries
             /\ profiles' = profiles
             /\ settingsRef' = settingsRef
             /\ sessions' = sessions
             /\ localSid' = localSid]_vars

\* The interval has fired after a session had been created and its marker
\* cleared again: no fetch is under way.
C21_Witness ==
    /\ op.name = "TickNoSession"
    /\ loginSucceeded /\ localSid = NoSid
    /\ ticks = EmptyBag

\* C25: a sync tick that completes with readings leaves status, email and
\* region of the active profile as they are when it completes.
C25_SyncFrame ==
    [][op'.name = "Sync_readings" =>
          /\ profiles'[activeProfileId].status = profiles[activeProfileId].status
          /\ profiles'[activeProfileId].email = profiles[activeProfileId].email
          /\ profiles'[activeProfileId].region = profiles[activeProfileId].region]_vars

\* C27: the login route stores no session for a connect attempt that the
\* client has already ended as a failure (its 75 s timer has won the race).
C27_NoOrphanSession ==
    [][(op'.name = "ServerConnect" /\ conn.pc # "racing")
          => sessions' = sessions]_vars

\* C24: exactly one 30 s interval of the sync effect is armed, whatever
\* status changes have taken place.
C24_OneTimer == timers = 1

\* The interval has fired in the status error, that is after the status has
\* changed twice (to connecting, then to error), with one interval armed.
C24_Witness ==
    /\ op.name \in {"IntervalTick", "TickNoSession"}
    /\ Status = "error"
    /\ timers = 1

\* ------------------------------------------------------ the retry policy
\* The login route on every sequence of vendor outcomes a call can meet.
AttemptRuns == [1..(DefaultRetries + 1) -> Outcomes]

InitRetry ==
    /\ Boot
    /\ isMock = FALSE
    /\ fnIn \in [hasCreds : BOOLEAN, outs : AttemptRuns]
    /\ fnOut = NoCall

\* POST /api/libre/connect up to its answer.
CallLoginRoute ==
    /\ fnOut = NoCall
    /\ fnOut' = LoginRoute(fnIn.hasCreds, fnIn.outs)
    /\ UNCHANGED <<timers, now, vendor, sessions, nextSid, profiles, activeProfileId, logEntries,
                           settingsRef, localSid, isMock, ticks, discs, conn, login, mockSync,
                           loginSucceeded, op, calls, fnIn, disk, writable, loading, persisted>>

SpecRetry == InitRetry /\ [][CallLoginRoute]_vars

\* The login route has answered a call whose every attempt timed out.
AllTimedOut ==
    /\ fnOut # NoCall
    /\ fnIn.hasCreds
    /\ \A i \in DOMAIN fnIn.outs : fnIn.outs[i] = "timeout"

SensorTimes == {k * (DayUnits \div 2) + j : k \in 0..MaxHalfDays, j \in 0..1}

InitSensor ==
    /\ Boot
    /\ isMock = FALSE
    /\ fnIn \in [t0 : SensorTimes, now : SensorTimes, pt : {2}]
    /\ fnOut = NoCall

\* The sensor part of GET /api/libre/read.
CallSensorInfo ==
    /\ fnOut = NoCall
    /\ fnOut' = SensorInfo([a |-> fnIn.t0, pt |-> fnIn.pt], fnIn.now)
    /\ UNCHANGED <<timers, now, vendor, sessions, nextSid, profiles, activeProfileId, logEntries,
                           settingsRef, localSid, isMock, ticks, discs, conn, login, mockSync,
                           loginSucceeded, op, calls, fnIn, disk, writable, loading, persisted>>

SpecSensor == InitSensor /\ [][CallSensorInfo]_vars

\* C6: for every activation epoch t0 and every evaluation time now, also now
\* before t0 and now after t0 + 14 days, the read route's daysLeft is within
\* 0..14.
C6_SensorBound ==
    fnOut # NoCall => fnOut.daysLeft >= 0 /\ fnOut.daysLeft <= 14

\* The read route has computed daysLeft for an evaluation time before the
\* activation epoch.
C6_Witness == fnOut # NoCall /\ fnIn.t0 # 0 /\ fnIn.now < fnIn.t0

\* ------------------------------------------------ disconnect and reconnect
\* A connected client whose last syncLibreData call has been answered by the
\* read route with a reading and has not run its continuation yet: the state
\* after connectLibre, the login, the first sync (answered 204) and the
\* answer to the sync the interval effect started.
ConnectedSettings == [initialSettings EXCEPT !.status = "connected", !.email = "e"]
AnsweredTick ==
    [cur |-> ConnectedSettings, sid |-> 1, st |-> "answered", first |-> FALSE,
     res |-> [status |-> 200,
              reading |-> [hasValue |-> TRUE, timestamp |-> ISO(1), sensor |-> NoSensor]]]

Connected(pending) ==
    /\ now = 1
    /\ vendor = [latest |-> 1, sensorOn |-> FALSE]
    /\ sessions = SessionsSet(EmptyTable, 1, "e")
    /\ disk = sessions
    /\ writable = TRUE
    /\ loading = FALSE
    /\ persisted = {}
    /\ nextSid = 2
    /\ profiles = [p \in ProfileIds |->
                     IF p = "p1" THEN ConnectedSettings ELSE initialSettings]
    /\ activeProfileId = "p1"
    /\ logEntries = <<>>
    /\ settingsRef = ConnectedSettings
    /\ localSid = 1
    /\ isMock = FALSE
    /\ ticks = pending
    /\ timers = 1
    /\ discs = [user |-> 0, expiry |-> 0]
    /\ conn = IdleConn
    /\ login = NoLogin
    /\ mockSync = FALSE
    /\ loginSucceeded = TRUE
    /\ op = Op("init", NoSid)
    /\ calls = NoCalls
    /\ fnIn = NoCall
    /\ fnOut = NoCall

InitReconnect == Connected(SetToBag({AnsweredTick}))

NextReconnect ==
    \/ ServerConnect
    \/ ServerRead
    \/ SyncDone
    \/ DisconnectLibre
    \/ DisconnectDone
    \/ ConnectLibre
    \/ LoginDone
    \/ ConnectTimeout

SpecReconnect == InitReconnect /\ [][NextReconnect]_vars

\* C9, with no connect attempt in progress: right after an explicit disconnect
\* has completed, only an explicit connect request moves the status away
\* from disconnected, whatever sync ticks are in flight.
C9_DisconnectTerminal ==
    [][(/\ op.name = "DisconnectDone_user"
        /\ conn.pc = "idle" /\ login.st = "none"
        /\ op'.name # "ConnectLibre")
          => profiles'[activeProfileId].status = "disconnected"]_vars

\* C8: after an explicit disconnect has completed, a sync tick that read under
\* a session the server has dropped since, and that completes with a reading
\* while another session is the current one, adds no log entry and changes
\* neither lastSync, sensor nor status.
C8_NoStaleWrite ==
    [][(/\ op'.name = "Sync_readings"
        /\ op'.sid \notin DOMAIN sessions
        /\ localSid \in DOMAIN sessions \ {op'.sid}
        /\ calls.disconnect > 0
        /\ discs = [user |-> 0, expiry |-> 0])
          => /\ logEntries' = logEntries
             /\ profiles'[activeProfileId].lastSync = profiles[activeProfileId].lastSync
             /\ profiles'[activeProfileId].sensor = profiles[activeProfileId].sensor
             /\ profiles'[activeProfileId].status = profiles[activeProfileId].status]_vars

\* ------------------------------------------------------------ the log
\* A connected client with no call in progress; the vendor publishes new
\* measurements, the interval polls, the user edits the log and switches
\* between profiles.
InitLog == Connected(EmptyBag)

NextLog ==
    \/ VendorUpdate
    \/ IntervalTick
    \/ ServerRead
    \/ SyncDone
    \/ DisconnectDone
    \/ addEntry
    \/ deleteEntry
    \/ switchProfile

SpecLog == InitLog /\ [][NextLog]_vars

\* The entries of profile p that carry the timestamp ts.
EntriesAt(ts, p) ==
    {i \in 1..Len(logEntries) :
        logEntries[i].timestamp = ts /\ logEntries[i].profileId = p}

\* C1: once a sync tick has merged a reading that carries a value, the log
\* holds exactly one entry of the active profile with the reading's timestamp,
\* however often that reading has been polled.
C1_Idempotence ==
    (op.name = "Sync_readings" /\ op.t # 0)
        => Cardinality(EntriesAt(ISO(op.t), activeProfileId)) = 1

\* C2: the entries of each profile are sorted by timestamp, newest first.
C2_Ordering ==
    \A i, j \in 1..Len(logEntries) :
        (i < j /\ logEntries[i].profileId = logEntries[j].profileId)
            => GetTime(logEntries[i].timestamp) >= GetTime(logEntries[j].timestamp)

\* A sync tick has just merged a reading into a log in which a manual entry
\* and a CGM entry of one profile carry different instants.
C2_Witness ==
    /\ op.name = "Sync_readings" /\ op.t # 0
    /\ \E i, j \in 1..Len(logEntries) :
          /\ i < j
          /\ logEntries[i].profileId = logEntries[j].profileId
          /\ logEntries[i].cgm # logEntries[j].cgm
          /\ GetTime(logEntries[i].timestamp) > GetTime(logEntries[j].timestamp)

\* C18: a fetched reading that carries a value is discarded if and only if
\* the log already holds an entry of the active profile with the identical
\* timestamp.
C18_KeyedByProfile ==
    [][(op'.name = "Sync_readings" /\ op'.t # 0)
          => ((logEntries' = logEntries)
                <=> EntriesAt(ISO(op'.t), activeProfileId) # {})]_vars

\* The entries the sync ticks have added with the timestamp ts.
CgmEntriesAt(ts) ==
    {i \in 1..Len(logEntries) : logEntries[i].timestamp = ts /\ logEntries[i].cgm}

\* C19: however many sync ticks are in flight and in whatever order they
\* complete, the ticks add at most one entry per timestamp, and once a tick
\* has completed with a reading the log holds an entry with its timestamp
\* (exactly one unless the user has added one with that timestamp by hand).
C19_OverlapSafe ==
    /\ \A i \in 1..Len(logEntries) :
          Cardinality(CgmEntriesAt(logEntries[i].timestamp)) <= 1
    /\ (op.name = "Sync_readings" /\ op.t # 0) =>
          /\ \E i \in 1..Len(logEntries) : logEntries[i].timestamp = ISO(op.t)
          /\ (\A i \in 1..Len(logEntries) : logEntries[i].cgm) =>
                Cardinality({i \in 1..Len(logEntries) :
                                logEntries[i].timestamp = ISO(op.t)}) = 1

\* A tick has completed with a reading while another tick in flight has
\* been answered with the same reading; the log holds it once.
C19_Witness ==
    /\ op.name = "Sync_readings" /\ op.t # 0
    /\ Cardinality(CgmEntriesAt(ISO(op.t))) = 1
    /\ \E t \in BagToSet(ticks) :
          /\ t.st = "answered" /\ t.res.status = 200
          /\ t.res.reading.hasValue
          /\ t.res.reading.timestamp = ISO(op.t)

\* ------------------------------------------------------ the session manager
\* The backend on its own: requests of any client to the three routes, the
\* process restarting (app.listen starts loadSessions and serves requests
\* while it runs) and the data directory becoming unwritable or writable.
\* A write of sessions.json is taken as one step with the route that starts it.
MaxSessions == 2
MaxRestarts == 1
Accounts == {"e", "f"}
\* The sessionId of a request; NoSid: the request carries none.
RequestSids == 0..MaxSessions

clientVars == <<now, vendor, profiles, activeProfileId, logEntries, settingsRef,
                localSid, isMock, ticks, timers, discs, conn, login, mockSync,
                loginSucceeded>>

InitServer ==
    /\ Boot
    /\ isMock = FALSE
    /\ fnIn = NoCall
    /\ fnOut = NoCall

\* POST /api/libre/connect
PostConnect ==
    \E account \in Accounts, hasCreds \in BOOLEAN, outs \in VendorRuns :
      LET r == LoginRoute(hasCreds, outs) IN
        /\ nextSid <= MaxSessions
        /\ ConnectRoute(account, r)
        /\ fnIn' = [route |-> "connect", sid |-> NoSid, account |-> account,
                    vendor |-> r.status, hasCreds |-> hasCreds, outs |-> outs,
                    attempts |-> r.attempts]
        /\ fnOut' = ConnectAnswer(r)
        /\ op' = Op("PostConnect", ConnectAnswer(r).sid)
        /\ UNCHANGED <<clientVars, calls, writable, loading, persisted>>

\* GET /api/libre/read
GetRead ==
    \E sid \in RequestSids :
      LET known == sid \in DOMAIN sessions
          answers == IF sid = NoSid
                     THEN {[status |-> 400, reading |-> NoReading, delete |-> FALSE,
                            cons |-> "none", graph |-> "none"]}
                     ELSE ReadAnswers(known)
      IN
      /\ \E r \in answers :
            /\ sessions' = IF r.delete THEN SessionsDelete(sessions, sid) ELSE sessions
            /\ persisted' = IF r.delete THEN persisted \ {sid} ELSE persisted
            /\ fnOut' = [status |-> r.status, hasValue |-> r.reading.hasValue,
                         error |-> IF r.status = 400 THEN "sessionId missing"
                                   ELSE IF ~known THEN "Session not found"
                                   ELSE IF r.delete THEN "Token expired" ELSE ""]
      /\ fnIn' = [route |-> "read", sid |-> sid]
      /\ op' = Op("GetRead", sid)
      /\ UNCHANGED <<clientVars, calls, nextSid, disk, writable, loading>>

\* POST /api/libre/disconnect
PostDisconnect ==
    \E sid \in RequestSids :
      /\ sessions' = DisconnectRoute(sessions, sid)
      /\ disk' = SaveSessions(sessions', disk, writable)
      /\ persisted' = persisted \ {sid}
      /\ fnIn' = [route |-> "disconnect", sid |-> sid]
      /\ fnOut' = [status |-> 200, success |-> TRUE]
      /\ op' = Op("PostDisconnect", sid)
      /\ UNCHANGED <<clientVars, calls, nextSid, writable, loading>>

\* The process stops and starts again: the Map is new, app.listen accepts
\* requests and its callback starts loadSessions.
Restart ==
    /\ calls.restart < MaxRestarts
    /\ calls' = [calls EXCEPT !.restart = @ + 1]
    /\ sessions' = EmptyTable
    /\ loading' = TRUE
    /\ persisted' = DOMAIN disk \cap (DOMAIN sessions \cup persisted)
    /\ fnIn' = NoCall
    /\ fnOut' = NoCall
    /\ op' = Op("Restart", NoSid)
    /\ UNCHANGED <<clientVars, nextSid, disk, writable>>

\* loadSessions has read sessions.json and sets its records in the table.
LoadDone ==
    /\ loading
    /\ loading' = FALSE
    /\ sessions' = LoadSessions(sessions, disk)
    /\ op' = Op("LoadDone", NoSid)
    /\ UNCHANGED <<clientVars, calls, nextSid, disk, writable, persisted, fnIn, fnOut>>

\* Writing to the data directory starts or stops failing.
StorageChange ==
    /\ writable' = ~writable
    /\ op' = Op("StorageChange", NoSid)
    /\ UNCHANGED <<clientVars, calls, sessions, nextSid, disk, loading, persisted,
                   fnIn, fnOut>>

NextServer ==
    \/ PostConnect
    \/ GetRead
    \/ PostDisconnect
    \/ Restart
    \/ LoadDone
    \/ StorageChange

SpecServer == InitServer /\ [][NextServer]_vars

\* The sessions the table holds for an account.
SessionsOf(account) == {s \in DOMAIN sessions : sessions[s] = account}

\* C12: after a successful login the session table holds, for the account
\* that logged in, the new session only.
C12_OneSessionPerAccount ==
    (op.name = "PostConnect" /\ fnOut.success)
        => SessionsOf(fnIn.account) = {fnOut.sid}

\* C13: a read request for a session that was in the table and in the file
\* when the server restarted, and has not been invalidated since, is never
\* answered 401 'Session not found'.
C13_SurvivesRestart ==
    [][(op'.name = "GetRead" /\ fnIn'.sid \in persisted)
          => fnOut'.error # "Session not found"]_vars

C15_BestEffort ==
    /\ (op.name = "PostConnect" /\ fnIn.vendor = 200 /\ ~writable) =>
          /\ fnOut.success /\ fnOut.status = 200
          /\ fnOut.sid \in DOMAIN sessions
          /\ sessions[fnOut.sid] = fnIn.account
    /\ (op.name = "PostDisconnect" /\ ~writable) =>
          /\ fnOut.success
          /\ fnIn.sid \notin DOMAIN sessions

\* A login has been answered with a session id that is in the table and, the
\* write having failed, not in the file.
C15_Witness ==
    /\ op.name = "PostConnect" /\ ~writable
    /\ fnOut.success
    /\ fnOut.sid \in DOMAIN sessions
    /\ fnOut.sid \notin DOMAIN disk

\* C22: the login route answers 403 when the vendor login ends with a 403 or
\* with an answer that carries no token, 504 when it ends without an answer
\* in time, and another error status on any other vendor failure; it stores a
\* session and returns its id exactly when the vendor login ends with a
\* token, and on every failure leaves table and file as they are.
C22_LoginClassification ==
    [][op'.name = "PostConnect" =>
         LET i == fnIn'
             o == fnOut'
         IN  /\ i.hasCreds =>
                  LET last == i.outs[i.attempts] IN
                  /\ last \in {"403", "200bad"} => o.status = 403
                  /\ last = "timeout" => o.status = 504
                  /\ last \in {"401", "500"} => o.status >= 400 /\ o.status \notin {403, 504}
                  /\ o.success <=> last = "200"
             /\ ~i.hasCreds => ~o.success
             /\ o.success <=> o.status = 200
             /\ o.success => /\ o.sid # NoSid /\ o.sid \notin DOMAIN sessions
                             /\ sessions' = SessionsSet(sessions, o.sid, i.account)
             /\ ~o.success => /\ o.sid = NoSid
                              /\ sessions' = sessions
                              /\ disk' = disk]_vars

\* A login that ended in the vendor's silence has been answered 504, after
\* all four attempts, with the table holding only the session of an earlier
\* login.
C22_Witness ==
    /\ op.name = "PostConnect"
    /\ fnIn.hasCreds /\ fnIn.attempts = DefaultRetries + 1
    /\ fnIn.outs[fnIn.attempts] = "timeout"
    /\ fnOut.status = 504 /\ fnOut.sid = NoSid
    /\ Cardinality(DOMAIN sessions) = 1

\* C26: while the data directory is writable and no load is under way, a
\* request that finds the file equal to the table leaves them equal: every
\* insertion and every removal reaches the file.
C26_DiskMatchesTable ==
    [][(/\ op'.name \in {"PostConnect", "GetRead", "PostDisconnect"}
        /\ writable /\ ~loading
        /\ disk = sessions)
          => disk' = sessions']_vars

\* ------------------------------------------------- the read route's answers
\* The read route on every vendor behaviour: the connection with no embedded
\* measurement, one of 30 minutes ago, one of exactly 15 minutes ago or a
\* fresh one, with no sensor, a sensor warming up or an active one, and a
\* graph of no, one or two items.
ReadPayloads ==
    [hasConn : BOOLEAN,
     gm : {0, 1, MaxNow, MaxNow + 1},
     sensor : {[a |-> 0, pt |-> 0], [a |-> 1, pt |-> 1], [a |-> 1, pt |-> 2]},
     graph : {{}, {2}, {1, 2}}]

InitRead ==
    /\ Boot
    /\ isMock = FALSE
    /\ fnIn \in [known : BOOLEAN, consOuts : VendorRuns, graphOuts : VendorRuns,
                 payload : ReadPayloads, now : {MaxNow + 1}]
    /\ fnOut = NoCall

\* GET /api/libre/read up to its answer.
CallReadRoute ==
    /\ fnOut = NoCall
    /\ fnOut' = ReadRoute(fnIn.known, fnIn.consOuts, fnIn.payload, fnIn.graphOuts, fnIn.now)
    /\ UNCHANGED <<clientVars, sessions, nextSid, op, calls, fnIn, disk, writable,
                   loading, persisted>>

SpecRead == InitRead /\ [][CallReadRoute]_vars

\* C16: when a vendor call of the read route, the connections call or the
\* graph call, is answered 401, the route answers 401 and removes the session.
C16_Vendor401Expires ==
    (fnOut # NoCall /\ (fnOut.cons = "401" \/ fnOut.graph = "401"))
        => (fnOut.status = 401 /\ fnOut.delete)

\* C23: once the connections call has given a connection, the read route
\* calls the graph endpoint exactly when the embedded measurement is absent
\* or more than 15 minutes old and the sensor is not warming up; when that
\* call gives a graph that is not empty, the reading answered is the graph
\* item with the greatest timestamp.
C23_GraphFallback ==
    (fnOut # NoCall /\ fnIn.known /\ fnOut.cons = "200" /\ fnIn.payload.hasConn) =>
        LET p == fnIn.payload
            old == p.gm = 0 \/ fnIn.now - p.gm > StaleUnits
            warming == p.sensor.pt = 1
        IN  /\ fnOut.graph # "none" <=> (old /\ ~warming)
            /\ (fnOut.graph = "200" /\ p.graph # {}) =>
                  /\ fnOut.status = 200
                  /\ fnOut.reading.hasValue
                  /\ fnOut.reading.timestamp.t \in p.graph
                  /\ \A t \in p.graph : t <= fnOut.reading.timestamp.t

\* The embedded measurement is 30 minutes old, the sensor is active, and the
\* reading answered is the later of the two graph items.
C23_Witness ==
    /\ fnOut # NoCall /\ fnIn.known
    /\ fnIn.payload.gm = 1 /\ fnIn.payload.sensor.pt = 2
    /\ fnIn.payload.graph = {1, 2}
    /\ fnOut.graph = "200"
    /\ fnOut.reading.timestamp = ISO(2)

\* ------------------------------------------------- the retry policy, per call
InitPolicy ==
    /\ Boot
    /\ isMock = FALSE
    /\ fnIn \in [call : VendorCalls, outs : AttemptRuns]
    /\ fnOut = NoCall

\* One vendor call: axiosWithRetry with the config of that call.
CallAxiosWithRetry ==
    /\ fnOut = NoCall
    /\ fnOut' = AxiosWithRetry(VendorConfig(fnIn.call), fnIn.outs, DefaultRetries)
    /\ UNCHANGED <<clientVars, sessions, nextSid, op, calls, fnIn, disk, writable,
                   loading, persisted>>

SpecPolicy == InitPolicy /\ [][CallAxiosWithRetry]_vars

\* C17: for each of the three vendor calls, the attempts made are the leading
\* attempts that ended in a timeout or a 5xx, as far as attempts remain, and
\* the one after them: an attempt is retried if and only if it ended in a
\* timeout or a 5xx and it was not the last one.
C17_UniformRetry ==
    fnOut # NoCall =>
        LET retryable(i) == fnIn.outs[i] = "timeout" \/ HttpStatus(fnIn.outs[i]) >= 500
            n == fnOut.attempts
        IN  /\ \A i \in 1..(n - 1) : retryable(i)
            /\ n = DefaultRetries + 1 \/ ~retryable(n)

====
